---- MODULE Spec2Model ----
(***************************************************************************)
(* Model of src/bot.py: a Telegram bot that keeps a personal ledger.       *)
(* Four ConversationHandlers (register, login, income, expense), a menu    *)
(* router and three command handlers are registered, in that order, in one *)
(* handler group; the first handler that accepts an update handles it.     *)
(* A text is a sequence of characters; a character is a one-element string *)
(* or, for an emoji, its name in brackets.                                 *)
(***************************************************************************)
EXTENDS Integers, Sequences, FiniteSets, TLC

VARIABLES
    conv,              \* per chat, the state of each ConversationHandler
    user_data,         \* per chat, context.user_data
    users,             \* the rows of table users, in id order
    transactions,      \* the rows of table transactions, in id order
    now,               \* datetime.now(WITA)
    bcrypt_truncates,  \* the installed bcrypt: before 5.0 (TRUE) or from 5.0 on
    registered,        \* history: the pairs create_user has stored, as typed
    run,               \* history: per chat and entry dialogue, the user its run was
                       \* entered as and the amount its run accepted
    last               \* history: what the last update did

vars ==
    <<conv, user_data, users, transactions, now, bcrypt_truncates, registered, run, last>>

(* ------------------------------ bounds -------------------------------- *)
MaxUsers == 1
MaxTx == 1
TicksPerDay == 2
\* the rows and the clock ticks of the specifications of the store and the clock
MaxRows == 2
MaxTicks == 6
\* the days of the specification of the report ranges
MaxDays == 93

\* chat identities: in a private chat the conversation key (chat id, user id) and
\* the owner of user_data are the same identity
Sessions == {1, 2}

(* ------------------------------ texts --------------------------------- *)
Whitespace == {" "}
DecDigits == {"0", "1", "2", "3", "4", "5", "6", "7", "8", "9"}
\* str.isdigit() also accepts digits that are not decimal, such as a superscript two
OtherDigits == {"[sup2]"}

RECURSIVE lstrip(_)
lstrip(t) == IF t # <<>> /\ Head(t) \in Whitespace THEN lstrip(Tail(t)) ELSE t

RECURSIVE rstrip(_)
rstrip(t) ==
    IF t # <<>> /\ t[Len(t)] \in Whitespace THEN rstrip(SubSeq(t, 1, Len(t) - 1)) ELSE t

strip(t) == rstrip(lstrip(t))

RECURSIVE remove(_, _)
remove(t, c) ==
    IF t = <<>> THEN <<>>
    ELSE IF Head(t) = c THEN remove(Tail(t), c) ELSE <<Head(t)>> \o remove(Tail(t), c)

isdigit(t) == t # <<>> /\ \A i \in 1..Len(t) : t[i] \in DecDigits \cup OtherDigits

DigitValue(c) ==
    CASE c = "0" -> 0 [] c = "1" -> 1 [] c = "2" -> 2 [] c = "3" -> 3 [] c = "4" -> 4
      [] c = "5" -> 5 [] c = "6" -> 6 [] c = "7" -> 7 [] c = "8" -> 8 [] c = "9" -> 9

\* int(text) raises ValueError on a digit that is not decimal
IntRaises(t) == \E i \in 1..Len(t) : t[i] \notin DecDigits

\* A Python int has no width. One that is not negative is the sequence of its
\* decimal digits, the most significant first and no leading zero; a negative one
\* is -1 followed by the digits of its absolute value.
Zero == <<0>>

RECURSIVE Normal(_)
Normal(ds) == IF Len(ds) > 1 /\ Head(ds) = 0 THEN Normal(Tail(ds)) ELSE ds

int(t) == Normal([i \in 1..Len(t) |-> DigitValue(t[i])])

\* a < b, for two ints that are not negative
IntLess(a, b) ==
    \/ Len(a) < Len(b)
    \/ /\ Len(a) = Len(b)
       /\ \E i \in 1..Len(a) : a[i] < b[i] /\ \A j \in 1..(i - 1) : a[j] = b[j]

Longer(a, b) == IF Len(a) > Len(b) THEN Len(a) ELSE Len(b)

Pad(ds, n) == [i \in 1..(n - Len(ds)) |-> 0] \o ds

\* the digits of a + b + carry, for a and b of one length
RECURSIVE AddDigits(_, _, _)
AddDigits(a, b, carry) ==
    IF a = <<>> THEN <<carry>>
    ELSE LET n == Len(a)
             d == a[n] + b[n] + carry
         IN  AddDigits(SubSeq(a, 1, n - 1), SubSeq(b, 1, n - 1), d \div 10) \o <<d % 10>>

IntAdd(a, b) == Normal(AddDigits(Pad(a, Longer(a, b)), Pad(b, Longer(a, b)), 0))

\* the digits of a - b - borrow, for a and b of one length and a >= b
RECURSIVE SubDigits(_, _, _)
SubDigits(a, b, borrow) ==
    IF a = <<>> THEN <<>>
    ELSE LET n == Len(a)
             d == a[n] - b[n] - borrow
         IN  SubDigits(SubSeq(a, 1, n - 1), SubSeq(b, 1, n - 1), IF d < 0 THEN 1 ELSE 0)
                 \o <<(d + 10) % 10>>

\* a - b, for two ints that are not negative
IntMinus(a, b) ==
    IF IntLess(a, b)
    THEN <<-1>> \o Normal(SubDigits(Pad(b, Longer(a, b)), Pad(a, Longer(a, b)), 0))
    ELSE Normal(SubDigits(Pad(a, Longer(a, b)), Pad(b, Longer(a, b)), 0))

AmountText(t) == remove(remove(strip(t), "."), ",")

(* the message texts the users send *)
TxtIn == <<"[plus]", " ", "U", "a", "n", "g", " ", "M", "a", "s", "u", "k">>
TxtOut == <<"[minus]", " ", "U", "a", "n", "g", " ", "K", "e", "l", "u", "a", "r">>
TxtToday == <<"[calendar]", " ", "M", "a", "s", "u", "k", " ", "H", "a", "r", "i", " ", "I", "n", "i">>
TxtWeek == <<"[spiral]", "[vs16]", " ", "K", "e", "l", "u", "a", "r", " ", "M", "i", "n", "g", "g", "u", " ", "I", "n", "i">>
TxtMonth == <<"[tearoff]", " ", "R", "e", "k", "a", "p", " ", "B", "u", "l", "a", "n", " ", "I", "n", "i">>
TxtLogout == <<"[door]", " ", "L", "o", "g", "o", "u", "t">>

CmdStart == <<"/", "s", "t", "a", "r", "t">>
CmdRegister == <<"/", "r", "e", "g", "i", "s", "t", "e", "r">>
CmdLogin == <<"/", "l", "o", "g", "i", "n">>
CmdLogout == <<"/", "l", "o", "g", "o", "u", "t">>
CmdCancel == <<"/", "c", "a", "n", "c", "e", "l">>
CmdHelp == <<"/", "h", "e", "l", "p">>

\* "ab " is shorter than 3 once stripped; "1.2" is the amount 12
TxtAli == <<"a", "l", "i">>
TxtAbSp == <<"a", "b", " ">>
TxtSecret == <<"s", "e", "c", "r", "e", "t">>
Txt123456 == <<"1", "2", "3", "4", "5", "6">>
Txt7 == <<"7">>
Txt1p2 == <<"1", ".", "2">>
TxtDash == <<"-">>
TxtSup2 == <<"[sup2]">>
\* 2^63 - 1, the largest value of an SQLite INTEGER, and 2^63
TxtMaxInt == <<"9", "2", "2", "3", "3", "7", "2", "0", "3", "6", "8", "5", "4", "7",
               "7", "5", "8", "0", "7">>
TxtOverInt == <<"9", "2", "2", "3", "3", "7", "2", "0", "3", "6", "8", "5", "4", "7",
                "7", "5", "8", "0", "8">>
TxtSup2Sp == <<"[sup2]", " ">>

(* ------------------------------ bcrypt -------------------------------- *)
\* bcrypt reads at most 72 bytes of a password
BcryptMaxBytes == 72

Pad72 == [i \in 1..BcryptMaxBytes |-> "x"]
TxtLongA == Pad72 \o <<"a">>
TxtLongB == Pad72 \o <<"b">>

Utf8Len(c) ==
    CASE c \in {"[calendar]", "[spiral]", "[tearoff]", "[door]"} -> 4
      [] c \in {"[plus]", "[minus]", "[vs16]"} -> 3
      [] c \in {"[sup2]"} -> 2
      [] OTHER -> 1

\* str.encode(): the UTF-8 bytes of a text, a byte being <<character, index>>
RECURSIVE encode(_)
encode(t) ==
    IF t = <<>> THEN <<>>
    ELSE [i \in 1..Utf8Len(Head(t)) |-> <<Head(t), i>>] \o encode(Tail(t))

\* bcrypt.gensalt(): the salt is random; its value decides nothing in the program
Salts == {"salt1"}

\* Before bcrypt 5.0 hashpw silently ignores the bytes after the 72nd; from 5.0 on
\* it raises ValueError for a longer password. The digest is one-way and is
\* modelled by what it depends on: the salt and the bytes read.
hashpw_raises(pw) == ~bcrypt_truncates /\ Len(pw) > BcryptMaxBytes

hashpw(pw, salt) ==
    [salt |-> salt,
     key |-> IF Len(pw) > BcryptMaxBytes THEN SubSeq(pw, 1, BcryptMaxBytes) ELSE pw]

\* a checkpw that hashes with a salt of its own
checkpw_mutant(pw, hashed) == hashpw(pw, "salt2") = hashed

checkpw(pw, hashed) == hashpw(pw, hashed.salt) = hashed

(* ------------------------------- time --------------------------------- *)
\* A datetime in WITA is [y, m, d, tod, us]: the calendar date, the time of day in
\* whole seconds, which counts from 0 (00:00:00) in TicksPerDay equal steps, and
\* the microsecond, which is 0 or not.
IsLeap(y) == (y % 4 = 0 /\ y % 100 # 0) \/ y % 400 = 0

DaysInMonth(y, m) ==
    IF m = 2 THEN (IF IsLeap(y) THEN 29 ELSE 28)
    ELSE IF m \in {4, 6, 9, 11} THEN 30 ELSE 31

RECURSIVE DaysBeforeMonth(_, _)
DaysBeforeMonth(y, m) ==
    IF m = 1 THEN 0 ELSE DaysBeforeMonth(y, m - 1) + DaysInMonth(y, m - 1)

toordinal(dt) ==
    LET p == dt.y - 1
    IN  p * 365 + (p \div 4) - (p \div 100) + (p \div 400) + DaysBeforeMonth(dt.y, dt.m) + dt.d

\* date.weekday(): Monday is 0
weekday(dt) == (toordinal(dt) + 6) % 7

NextDay(dt) ==
    IF dt.d < DaysInMonth(dt.y, dt.m) THEN [dt EXCEPT !.d = dt.d + 1]
    ELSE IF dt.m < 12 THEN [dt EXCEPT !.m = dt.m + 1, !.d = 1]
    ELSE [dt EXCEPT !.y = dt.y + 1, !.m = 1, !.d = 1]

PrevDay(dt) ==
    IF dt.d > 1 THEN [dt EXCEPT !.d = dt.d - 1]
    ELSE IF dt.m > 1 THEN [dt EXCEPT !.m = dt.m - 1, !.d = DaysInMonth(dt.y, dt.m - 1)]
    ELSE [dt EXCEPT !.y = dt.y - 1, !.m = 12, !.d = 31]

\* dt + timedelta(days=n)
RECURSIVE AddDays(_, _)
AddDays(dt, n) ==
    IF n = 0 THEN dt
    ELSE IF n > 0 THEN AddDays(NextDay(dt), n - 1) ELSE AddDays(PrevDay(dt), n + 1)

\* the code points of the two characters that can follow the seconds
Dot == 46
Plus == 43

\* datetime.isoformat(): fixed-width fields, most significant first, so that the
\* texts compare as the tuples of their fields do; the fraction ".ffffff" is left
\* out when the microsecond is 0, and the offset "+08:00" ends the text
isoformat(dt) ==
    <<dt.y, dt.m, dt.d, dt.tod>> \o (IF dt.us = 0 THEN <<>> ELSE <<Dot, dt.us>>)
        \o <<Plus, 8, 0>>

\* datetime.fromisoformat(): the datetime a text was made from
fromisoformat(text) ==
    [y |-> text[1], m |-> text[2], d |-> text[3], tod |-> text[4],
     us |-> IF text[5] = Dot THEN text[6] ELSE 0]

\* a < b, for two datetimes
Earlier(a, b) ==
    LET x == <<a.y, a.m, a.d, a.tod, a.us>>
        y == <<b.y, b.m, b.d, b.tod, b.us>>
    IN  \E i \in 1..5 : x[i] < y[i] /\ \A j \in 1..(i - 1) : x[j] = y[j]

RECURSIVE TextLess(_, _)
TextLess(a, b) ==
    IF b = <<>> THEN FALSE
    ELSE IF a = <<>> THEN TRUE
    ELSE IF Head(a) # Head(b) THEN Head(a) < Head(b)
    ELSE TextLess(Tail(a), Tail(b))

Midnight(dt) == [dt EXCEPT !.tod = 0, !.us = 0]

today_range(t) ==
    LET start == Midnight(t)
        end == AddDays(start, 1)
    IN  <<isoformat(start), isoformat(end)>>

week_range_monday(t) ==
    LET start0 == Midnight(t)
        start == AddDays(start0, 0 - weekday(start0))
        end == AddDays(start, 7)
    IN  <<isoformat(start), isoformat(end)>>

\* a month_range that takes every month for 30 days
month_range_mutant(t) ==
    LET start == [Midnight(t) EXCEPT !.d = 1]
    IN  <<isoformat(start), isoformat(AddDays(start, 30))>>

month_range(t) ==
    LET start == [Midnight(t) EXCEPT !.d = 1]
        end == IF start.m = 12 THEN [start EXCEPT !.y = start.y + 1, !.m = 1]
               ELSE [start EXCEPT !.m = start.m + 1]
    IN  <<isoformat(start), isoformat(end)>>

\* the time of the run: the last tick of Sunday 2023-12-31, the last moment of a
\* day, a week, a month and a year
StartTime == [y |-> 2023, m |-> 12, d |-> 31, tod |-> TicksPerDay - 1, us |-> 1]

\* the next moment of the clock
NextTick(t) ==
    IF t.us = 0 THEN [t EXCEPT !.us = 1]
    ELSE IF t.tod + 1 < TicksPerDay THEN [t EXCEPT !.tod = t.tod + 1, !.us = 0]
    ELSE NextDay(Midnight(t))

(* ------------------------------ store --------------------------------- *)
\* SELECT * FROM users WHERE username = ?  (fetchone: the first row, or none)
find_user(username) == SelectSeq(users, LAMBDA r : r.username = username)

\* the usernames of table users
Usernames == {users[i].username : i \in 1..Len(users)}

\* a create_user that meets no UNIQUE constraint
create_user_raises_mutant(username, password) == hashpw_raises(encode(password))

\* the UNIQUE constraint on users.username makes the INSERT raise IntegrityError
create_user_raises(username, password) ==
    \/ hashpw_raises(encode(password))
    \/ find_user(username) # <<>>

\* created_at is written and never read; the model leaves the column out
create_user(username, password, salt) ==
    Append(users, [id |-> Len(users) + 1,
                   username |-> username,
                   password_hash |-> hashpw(encode(password), salt)])

verify_user_raises(username, password) ==
    find_user(username) # <<>> /\ hashpw_raises(encode(password))

verify_user(username, password) ==
    LET u == find_user(username)
    IN  IF u = <<>> THEN FALSE ELSE checkpw(encode(password), u[1].password_hash)

\* None, the absent note
NoNote == <<"[None]">>

\* the largest INTEGER SQLite stores
SqliteMaxInt == int(TxtMaxInt)

\* sqlite3 raises OverflowError for a Python int that does not fit an INTEGER
add_tx_raises(amount) == IntLess(SqliteMaxInt, amount)

\* an add_tx that runs its INSERT twice
add_tx_mutant(user_id, tx_type, amount, note) ==
    LET row == [user_id |-> user_id, type |-> tx_type, amount |-> amount,
                note |-> note, ts |-> isoformat(now)]
    IN  transactions \o <<[id |-> Len(transactions) + 1] @@ row,
                          [id |-> Len(transactions) + 2] @@ row>>

add_tx(user_id, tx_type, amount, note) ==
    Append(transactions, [id |-> Len(transactions) + 1,
                          user_id |-> user_id,
                          type |-> tx_type,
                          amount |-> amount,
                          note |-> note,
                          ts |-> isoformat(now)])

RECURSIVE SumAmounts(_)
SumAmounts(rows) ==
    IF rows = <<>> THEN Zero ELSE IntAdd(Head(rows).amount, SumAmounts(Tail(rows)))

\* ... WHERE user_id=? AND type=? AND ts>=? AND ts<?
Selected(user_id, tx_type, start_iso, end_iso) ==
    SelectSeq(transactions,
        LAMBDA r : /\ r.user_id = user_id
                   /\ r.type = tx_type
                   /\ ~TextLess(r.ts, start_iso)
                   /\ TextLess(r.ts, end_iso))

\* SUM() over integers raises "integer overflow" when the total passes the largest
\* INTEGER; the amounts are not negative, so the total passes it when a partial sum does
sum_tx_raises(user_id, tx_type, start_iso, end_iso) ==
    IntLess(SqliteMaxInt, SumAmounts(Selected(user_id, tx_type, start_iso, end_iso)))

\* SELECT COALESCE(SUM(amount), 0) ...
sum_tx(user_id, tx_type, start_iso, end_iso) ==
    SumAmounts(Selected(user_id, tx_type, start_iso, end_iso))

(* ----------------------------- session -------------------------------- *)
\* context.user_data is a dict: a function whose domain is the keys present
Pop(d, k) == [x \in DOMAIN d \ {k} |-> d[x]]
Put(d, k, v) == [x \in DOMAIN d \cup {k} |-> IF x = k THEN v ELSE d[x]]
Get(d, k, default) == IF k \in DOMAIN d THEN d[k] ELSE default
EmptyDict == [x \in {} |-> 0]

is_logged_in(s) == "user_id" \in DOMAIN user_data[s]

\* no amount: what a run of an entry dialogue has accepted before its amount step
None == <<>>

EntryConvs == {"in", "out"}

\* no run: no user (the ids of table users start at 1) and no amount
NoRun == [owner |-> 0, amount |-> None]

NoRuns == [s \in Sessions |-> [c \in EntryConvs |-> NoRun]]

(* ------------------------- conversation states ------------------------ *)
REG_USERNAME == 0
REG_PASSWORD == 1
LOGIN_USERNAME == 2
LOGIN_PASSWORD == 3
IN_AMOUNT == 4
IN_NOTE == 5
OUT_AMOUNT == 6
OUT_NOTE == 7
\* ConversationHandler.END: the conversation key is dropped
END == -1

ConvNames == {"reg", "login", "in", "out"}

(* ------------------------------ dispatch ------------------------------ *)
\* filters.COMMAND: the message starts with a bot command
IsCommand(t) == Len(t) >= 2 /\ t[1] = "/"

RECURSIVE TakeWord(_)
TakeWord(t) ==
    IF t = <<>> \/ Head(t) \in Whitespace \cup {"@"} THEN <<>>
    ELSE <<Head(t)>> \o TakeWord(Tail(t))

\* CommandHandler(name).check_update
CommandIs(t, cmd) == IsCommand(t) /\ TakeWord(Tail(t)) = Tail(cmd)

\* filters.TEXT & ~filters.COMMAND
PlainText(t) == t # <<>> /\ ~IsCommand(t)

\* every text of the model
AllTexts ==
    {CmdStart, CmdRegister, CmdLogin, CmdLogout, CmdCancel, CmdHelp,
     TxtIn, TxtOut, TxtToday, TxtWeek, TxtMonth, TxtLogout,
     TxtAli, TxtAbSp, TxtSecret, Txt123456, Txt7, Txt1p2, TxtDash, TxtSup2, TxtSup2Sp,
     TxtMaxInt, TxtOverInt, TxtLongA, TxtLongB}

\* what each filter of main() answers for each text, tabulated once
Filters ==
    [t \in AllTexts |->
        [start |-> CommandIs(t, CmdStart),
         register |-> CommandIs(t, CmdRegister),
         login |-> CommandIs(t, CmdLogin),
         logout |-> CommandIs(t, CmdLogout),
         cancel |-> CommandIs(t, CmdCancel),
         plain |-> PlainText(t),
         in |-> t = TxtIn,
         out |-> t = TxtOut]]

\* the entry point of each ConversationHandler
EntryMatches(c, t) ==
    CASE c = "reg" -> Filters[t].register
      [] c = "login" -> Filters[t].login
      [] c = "in" -> Filters[t].in
      [] c = "out" -> Filters[t].out

EntryHandler(c) ==
    CASE c = "reg" -> "register_cmd"
      [] c = "login" -> "login_cmd"
      [] c = "in" -> "in_start"
      [] c = "out" -> "out_start"

StateHandler(st) ==
    CASE st = REG_USERNAME -> "reg_username"
      [] st = REG_PASSWORD -> "reg_password"
      [] st = LOGIN_USERNAME -> "login_username"
      [] st = LOGIN_PASSWORD -> "login_password"
      [] st = IN_AMOUNT -> "in_amount"
      [] st = IN_NOTE -> "in_note"
      [] st = OUT_AMOUNT -> "out_amount"
      [] st = OUT_NOTE -> "out_note"

\* ConversationHandler.check_update: with no state only the entry point is tried;
\* in a state its handler is tried, then the fallback; "none" when nothing accepts
ConvCheck(c, st, t) ==
    IF st = END
    THEN IF EntryMatches(c, t) THEN EntryHandler(c) ELSE "none"
    ELSE IF Filters[t].plain THEN StateHandler(st)
    ELSE IF Filters[t].cancel THEN "cancel"
    ELSE "none"

\* the handlers of group 0 in the order main() adds them
HandlerOrder == <<"start", "reg", "login", "in", "out", "menu", "logout">>

HandlerCheck(h, cs, t) ==
    CASE h = "start" -> IF Filters[t].start THEN "start" ELSE "none"
      [] h = "menu" -> IF Filters[t].plain THEN "menu_router" ELSE "none"
      [] h = "logout" -> IF Filters[t].logout THEN "logout_cmd" ELSE "none"
      [] OTHER -> ConvCheck(h, cs[h], t)

\* Application.process_update: the first handler of the group that accepts the
\* update handles it, and no later one sees it
RECURSIVE FirstMatch(_, _, _)
FirstMatch(hs, cs, t) ==
    IF hs = <<>> THEN [conv |-> "-", handler |-> "none"]
    ELSE IF HandlerCheck(Head(hs), cs, t) # "none"
         THEN [conv |-> Head(hs), handler |-> HandlerCheck(Head(hs), cs, t)]
         ELSE FirstMatch(Tail(hs), cs, t)

\* the states the four conversations of one chat can be in
ConvStates ==
    [reg : {END, REG_USERNAME, REG_PASSWORD},
     login : {END, LOGIN_USERNAME, LOGIN_PASSWORD},
     in : {END, IN_AMOUNT, IN_NOTE},
     out : {END, OUT_AMOUNT, OUT_NOTE}]

\* the handler each text goes to in each of them, tabulated once
DispatchTable ==
    [cs \in ConvStates |-> [t \in AllTexts |-> FirstMatch(HandlerOrder, cs, t)]]

Dispatch(s, t) == DispatchTable[conv[s]][t]

(* ------------------------------ handlers ------------------------------ *)
\* what the last update did: the handler that took it, the notice it sent, the
\* numbers the notice shows, whether the handler raised, the store calls it made
Outcome(s, t, h, notice, shown, raised, db) ==
    [sess |-> s, text |-> t, handler |-> h, notice |-> notice,
     shown |-> shown, raised |-> raised, db |-> db]

\* ConversationHandler stores the state a callback returns; a callback that raises
\* leaves the state as it was
Goto(s, c, st) == conv' = [conv EXCEPT ![s][c] = st]

start(s, t) ==
    /\ last' = Outcome(s, t, "start", "intro", <<>>, FALSE, {})
    /\ UNCHANGED <<conv, user_data, users, transactions, now, bcrypt_truncates, registered, run>>

register_cmd(s, t) ==
    /\ Goto(s, "reg", REG_USERNAME)
    /\ last' = Outcome(s, t, "register_cmd", "ask_username", <<>>, FALSE, {})
    /\ UNCHANGED <<user_data, users, transactions, now, bcrypt_truncates, registered, run>>

reg_username(s, t) ==
    LET username == strip(t)
    IN  /\ IF Len(username) < 3
           THEN /\ Goto(s, "reg", REG_USERNAME)
                /\ last' = Outcome(s, t, "reg_username", "username_too_short", <<>>, FALSE, {})
                /\ UNCHANGED user_data
           ELSE IF find_user(username) # <<>>
           THEN /\ Goto(s, "reg", REG_USERNAME)
                /\ last' = Outcome(s, t, "reg_username", "username_taken", <<>>, FALSE,
                                   {"find_user"})
                /\ UNCHANGED user_data
           ELSE /\ user_data' = [user_data EXCEPT ![s] = Put(@, "reg_username", username)]
                /\ Goto(s, "reg", REG_PASSWORD)
                /\ last' = Outcome(s, t, "reg_username", "ask_new_password", <<>>, FALSE,
                                   {"find_user"})
        /\ UNCHANGED <<users, transactions, now, bcrypt_truncates, registered, run>>

\* a registration that logs the chat in as the new user
reg_password_mutant(s, t) ==
    LET password == strip(t)
    IN  /\ Len(password) >= 6
        /\ "reg_username" \in DOMAIN user_data[s]
        /\ ~create_user_raises(user_data[s]["reg_username"], password)
        /\ Cardinality(Usernames \cup {user_data[s]["reg_username"]}) <= MaxUsers
        /\ \E salt \in Salts :
               users' = create_user(user_data[s]["reg_username"], password, salt)
        /\ registered' = registered \cup
               {[sess |-> s, username |-> user_data[s]["reg_username"],
                 password |-> password, id |-> Len(users) + 1]}
        /\ user_data' = [user_data EXCEPT ![s] =
               Put(Put(Pop(@, "reg_username"), "user_id", Len(users) + 1),
                   "username", user_data[s]["reg_username"])]
        /\ Goto(s, "reg", END)
        /\ last' = Outcome(s, t, "reg_password", "registered", <<>>, FALSE, {"create_user"})
        /\ UNCHANGED <<transactions, now, bcrypt_truncates, run>>

reg_password(s, t) ==
    LET password == strip(t)
    IN  /\ IF Len(password) < 6
           THEN /\ Goto(s, "reg", REG_PASSWORD)
                /\ last' = Outcome(s, t, "reg_password", "password_too_short", <<>>, FALSE, {})
                /\ UNCHANGED <<user_data, users, registered, run>>
           ELSE IF "reg_username" \notin DOMAIN user_data[s]
           THEN \* KeyError
                /\ last' = Outcome(s, t, "reg_password", "none", <<>>, TRUE, {})
                /\ UNCHANGED <<conv, user_data, users, registered, run>>
           ELSE IF create_user_raises(user_data[s]["reg_username"], password)
           THEN /\ last' = Outcome(s, t, "reg_password", "none", <<>>, TRUE, {"create_user"})
                /\ UNCHANGED <<conv, user_data, users, registered, run>>
           ELSE /\ Cardinality(Usernames \cup {user_data[s]["reg_username"]}) <= MaxUsers
                /\ \E salt \in Salts :
                       users' = create_user(user_data[s]["reg_username"], password, salt)
                /\ registered' = registered \cup
                       {[sess |-> s, username |-> user_data[s]["reg_username"],
                         password |-> password, id |-> Len(users) + 1]}
                /\ user_data' = [user_data EXCEPT ![s] = Pop(@, "reg_username")]
                /\ Goto(s, "reg", END)
                /\ last' = Outcome(s, t, "reg_password", "registered", <<>>, FALSE,
                                   {"create_user"})
        /\ UNCHANGED <<transactions, now, bcrypt_truncates, run>>

login_cmd(s, t) ==
    /\ Goto(s, "login", LOGIN_USERNAME)
    /\ last' = Outcome(s, t, "login_cmd", "ask_login_username", <<>>, FALSE, {})
    /\ UNCHANGED <<user_data, users, transactions, now, bcrypt_truncates, registered, run>>

login_username(s, t) ==
    /\ user_data' = [user_data EXCEPT ![s] = Put(@, "login_username", strip(t))]
    /\ Goto(s, "login", LOGIN_PASSWORD)
    /\ last' = Outcome(s, t, "login_username", "ask_login_password", <<>>, FALSE, {})
    /\ UNCHANGED <<users, transactions, now, bcrypt_truncates, registered, run>>

login_password(s, t) ==
    LET username == Get(user_data[s], "login_username", <<>>)
        password == strip(t)
        popped == Pop(user_data[s], "login_username")
    IN  /\ IF verify_user_raises(username, password)
           THEN /\ user_data' = [user_data EXCEPT ![s] = popped]
                /\ last' = Outcome(s, t, "login_password", "none", <<>>, TRUE, {"find_user"})
                /\ UNCHANGED conv
           ELSE IF ~verify_user(username, password)
           THEN /\ user_data' = [user_data EXCEPT ![s] = popped]
                /\ Goto(s, "login", END)
                /\ last' = Outcome(s, t, "login_password", "login_failed", <<>>, FALSE,
                                   {"find_user"})
           ELSE /\ user_data' = [user_data EXCEPT ![s] =
                       Put(Put(popped, "user_id", find_user(username)[1].id),
                           "username", username)]
                /\ Goto(s, "login", END)
                /\ last' = Outcome(s, t, "login_password", "welcome", <<>>, FALSE,
                                   {"find_user"})
        /\ UNCHANGED <<users, transactions, now, bcrypt_truncates, registered, run>>

LoggedOut(d) == Pop(Pop(d, "user_id"), "username")

logout_cmd(s, t) ==
    /\ user_data' = [user_data EXCEPT ![s] = LoggedOut(@)]
    /\ last' = Outcome(s, t, "logout_cmd", "logged_out", <<>>, FALSE, {})
    /\ UNCHANGED <<conv, users, transactions, now, bcrypt_truncates, registered, run>>

\* an entry guard that sends the notice and enters the dialogue all the same
EntryStart_mutant(s, t, c, h, first, prompt) ==
    /\ Goto(s, c, first)
    /\ last' = Outcome(s, t, h, IF is_logged_in(s) THEN prompt ELSE "not_logged_in",
                       <<>>, FALSE, {})
    /\ run' = [run EXCEPT ![s][c] = NoRun]
    /\ UNCHANGED <<user_data, users, transactions, now, bcrypt_truncates, registered>>

\* in_start and out_start: the entry guard of the two entry dialogues
EntryStart(s, t, c, h, first, prompt) ==
    /\ IF ~is_logged_in(s)
       THEN /\ Goto(s, c, END)
            /\ last' = Outcome(s, t, h, "not_logged_in", <<>>, FALSE, {})
            /\ run' = [run EXCEPT ![s][c] = NoRun]
       ELSE /\ Goto(s, c, first)
            /\ last' = Outcome(s, t, h, prompt, <<>>, FALSE, {})
            /\ run' = [run EXCEPT ![s][c] =
                   [owner |-> user_data[s]["user_id"], amount |-> None]]
    /\ UNCHANGED <<user_data, users, transactions, now, bcrypt_truncates, registered>>

\* an amount step that ends the dialogue on an amount that is not a number
AmountStep_mutant(s, t, c, h, same, next) ==
    LET text == AmountText(t)
    IN  /\ IF ~isdigit(text) \/ IntRaises(text)
           THEN /\ Goto(s, c, END)
                /\ last' = Outcome(s, t, h, "amount_not_number", <<>>, FALSE, {})
                /\ UNCHANGED <<user_data, run>>
           ELSE /\ user_data' = [user_data EXCEPT ![s] = Put(@, "tmp_amount", int(text))]
                /\ run' = [run EXCEPT ![s][c].amount = int(text)]
                /\ Goto(s, c, next)
                /\ last' = Outcome(s, t, h, "ask_note", <<>>, FALSE, {})
        /\ UNCHANGED <<users, transactions, now, bcrypt_truncates, registered>>

\* in_amount and out_amount
AmountStep(s, t, c, h, same, next) ==
    LET text == AmountText(t)
    IN  /\ IF ~isdigit(text)
           THEN /\ Goto(s, c, same)
                /\ last' = Outcome(s, t, h, "amount_not_number", <<>>, FALSE, {})
                /\ UNCHANGED <<user_data, run>>
           ELSE IF IntRaises(text)
           THEN \* ValueError
                /\ last' = Outcome(s, t, h, "none", <<>>, TRUE, {})
                /\ UNCHANGED <<conv, user_data, run>>
           ELSE /\ user_data' = [user_data EXCEPT ![s] = Put(@, "tmp_amount", int(text))]
                /\ run' = [run EXCEPT ![s][c].amount = int(text)]
                /\ Goto(s, c, next)
                /\ last' = Outcome(s, t, h, "ask_note", <<>>, FALSE, {})
        /\ UNCHANGED <<users, transactions, now, bcrypt_truncates, registered>>

\* a note step that records for a chat that is not logged in, under user id 0
NoteStep_mutant(s, t, c, h, tx_type, done) ==
    LET note == IF strip(t) = TxtDash THEN NoNote ELSE strip(t)
        amount == Get(user_data[s], "tmp_amount", Zero)
        popped == Pop(user_data[s], "tmp_amount")
    IN  /\ Len(transactions) < MaxTx
        /\ user_data' = [user_data EXCEPT ![s] = popped]
        /\ transactions' = add_tx(Get(user_data[s], "user_id", 0), tx_type, amount, note)
        /\ Goto(s, c, END)
        /\ last' = Outcome(s, t, h, done, <<amount>>, FALSE, {"add_tx"})
        /\ run' = [run EXCEPT ![s][c] = NoRun]
        /\ UNCHANGED <<users, now, bcrypt_truncates, registered>>

\* in_note and out_note
NoteStep(s, t, c, h, tx_type, done) ==
    LET note == IF strip(t) = TxtDash THEN NoNote ELSE strip(t)
        amount == Get(user_data[s], "tmp_amount", Zero)
        popped == Pop(user_data[s], "tmp_amount")
    IN  /\ IF "user_id" \notin DOMAIN user_data[s]
           THEN \* KeyError, after tmp_amount was popped
                /\ user_data' = [user_data EXCEPT ![s] = popped]
                /\ last' = Outcome(s, t, h, "none", <<>>, TRUE, {})
                /\ UNCHANGED <<conv, transactions, run>>
           ELSE IF add_tx_raises(amount)
           THEN \* OverflowError, after tmp_amount was popped
                /\ user_data' = [user_data EXCEPT ![s] = popped]
                /\ last' = Outcome(s, t, h, "none", <<>>, TRUE, {"add_tx"})
                /\ UNCHANGED <<conv, transactions, run>>
           ELSE /\ Len(transactions) < MaxTx
                /\ user_data' = [user_data EXCEPT ![s] = popped]
                /\ transactions' = add_tx(user_data[s]["user_id"], tx_type, amount, note)
                /\ Goto(s, c, END)
                /\ last' = Outcome(s, t, h, done, <<amount>>, FALSE, {"add_tx"})
                /\ run' = [run EXCEPT ![s][c] = NoRun]
        /\ UNCHANGED <<users, now, bcrypt_truncates, registered>>

in_start(s, t) == EntryStart(s, t, "in", "in_start", IN_AMOUNT, "ask_in_amount")

in_amount(s, t) == AmountStep(s, t, "in", "in_amount", IN_AMOUNT, IN_NOTE)

in_note(s, t) == NoteStep(s, t, "in", "in_note", "IN", "in_recorded")

out_start(s, t) == EntryStart(s, t, "out", "out_start", OUT_AMOUNT, "ask_out_amount")

out_amount(s, t) == AmountStep(s, t, "out", "out_amount", OUT_AMOUNT, OUT_NOTE)

out_note(s, t) == NoteStep(s, t, "out", "out_note", "OUT", "out_recorded")

(* ------------------------------ reports ------------------------------- *)
report_in_today(s, t) ==
    IF ~is_logged_in(s)
    THEN last' = Outcome(s, t, "menu_router", "not_logged_in", <<>>, FALSE, {})
    ELSE LET r == today_range(now)
         IN  IF sum_tx_raises(user_data[s]["user_id"], "IN", r[1], r[2])
             THEN last' = Outcome(s, t, "menu_router", "none", <<>>, TRUE, {"sum_tx"})
             ELSE last' = Outcome(s, t, "menu_router", "report_in_today",
                                  <<sum_tx(user_data[s]["user_id"], "IN", r[1], r[2])>>,
                                  FALSE, {"sum_tx"})

report_out_week(s, t) ==
    IF ~is_logged_in(s)
    THEN last' = Outcome(s, t, "menu_router", "not_logged_in", <<>>, FALSE, {})
    ELSE LET r == week_range_monday(now)
         IN  IF sum_tx_raises(user_data[s]["user_id"], "OUT", r[1], r[2])
             THEN last' = Outcome(s, t, "menu_router", "none", <<>>, TRUE, {"sum_tx"})
             ELSE last' = Outcome(s, t, "menu_router", "report_out_week",
                                  <<sum_tx(user_data[s]["user_id"], "OUT", r[1], r[2])>>,
                                  FALSE, {"sum_tx"})

report_month(s, t) ==
    IF ~is_logged_in(s)
    THEN last' = Outcome(s, t, "menu_router", "not_logged_in", <<>>, FALSE, {})
    ELSE LET r == month_range(now)
             masuk == sum_tx(user_data[s]["user_id"], "IN", r[1], r[2])
             keluar == sum_tx(user_data[s]["user_id"], "OUT", r[1], r[2])
         IN  IF \/ sum_tx_raises(user_data[s]["user_id"], "IN", r[1], r[2])
                \/ sum_tx_raises(user_data[s]["user_id"], "OUT", r[1], r[2])
             THEN last' = Outcome(s, t, "menu_router", "none", <<>>, TRUE, {"sum_tx"})
             ELSE last' = Outcome(s, t, "menu_router", "report_month",
                                  <<masuk, keluar, IntMinus(masuk, keluar)>>,
                                  FALSE, {"sum_tx"})

\* the reports and the logout button; any other text is dropped without a reply
menu_router(s, t) ==
    LET text == strip(t)
    IN  /\ IF text = TxtToday THEN report_in_today(s, t) /\ UNCHANGED user_data
           ELSE IF text = TxtWeek THEN report_out_week(s, t) /\ UNCHANGED user_data
           ELSE IF text = TxtMonth THEN report_month(s, t) /\ UNCHANGED user_data
           ELSE IF text = TxtLogout
           THEN /\ user_data' = [user_data EXCEPT ![s] = LoggedOut(@)]
                /\ last' = Outcome(s, t, "menu_router", "logged_out", <<>>, FALSE, {})
           ELSE /\ last' = Outcome(s, t, "menu_router", "none", <<>>, FALSE, {})
                /\ UNCHANGED user_data
        /\ UNCHANGED <<conv, users, transactions, now, bcrypt_truncates, registered, run>>

\* a cancel that logs the chat out as well
cancel_mutant(s, t, c) ==
    /\ user_data' = [user_data EXCEPT ![s] =
           LoggedOut(Pop(Pop(Pop(@, "tmp_amount"), "reg_username"), "login_username"))]
    /\ Goto(s, c, END)
    /\ last' = Outcome(s, t, "cancel", "cancelled", <<>>, FALSE, {})
    /\ run' = IF c \in EntryConvs THEN [run EXCEPT ![s][c] = NoRun] ELSE run
    /\ UNCHANGED <<users, transactions, now, bcrypt_truncates, registered>>

\* the fallback of all four conversations; it ends the one that dispatched it
cancel(s, t, c) ==
    /\ user_data' = [user_data EXCEPT ![s] =
           Pop(Pop(Pop(@, "tmp_amount"), "reg_username"), "login_username")]
    /\ Goto(s, c, END)
    /\ last' = Outcome(s, t, "cancel", "cancelled", <<>>, FALSE, {})
    /\ run' = IF c \in EntryConvs THEN [run EXCEPT ![s][c] = NoRun] ELSE run
    /\ UNCHANGED <<users, transactions, now, bcrypt_truncates, registered>>

\* an update no handler accepts is dropped
unhandled(s, t) ==
    /\ last' = Outcome(s, t, "none", "none", <<>>, FALSE, {})
    /\ UNCHANGED <<conv, user_data, users, transactions, now, bcrypt_truncates, registered, run>>

(* --------------------------- specification ---------------------------- *)
\* the bot right after main() on an empty database
Fresh ==
    /\ conv = [s \in Sessions |-> [c \in ConvNames |-> END]]
    /\ user_data = [s \in Sessions |-> EmptyDict]
    /\ users = <<>>
    /\ transactions = <<>>
    /\ now = StartTime
    /\ registered = {}
    /\ run = NoRuns
    /\ last = Outcome(0, <<>>, "init", "none", <<>>, FALSE, {})

\* a build with bcrypt before 5.0
Init == Fresh /\ bcrypt_truncates = TRUE

\* a build with either bcrypt
InitAnyBcrypt == Fresh /\ bcrypt_truncates \in BOOLEAN

\* the bot restarted on the database file an earlier run left: init_db() keeps the
\* rows, here one user who registered as 123456 with password 123456
InitRestarted ==
    /\ conv = [s \in Sessions |-> [c \in ConvNames |-> END]]
    /\ user_data = [s \in Sessions |-> EmptyDict]
    /\ users = <<[id |-> 1, username |-> Txt123456,
                  password_hash |-> hashpw(encode(Txt123456), "salt1")]>>
    /\ transactions = <<>>
    /\ now = StartTime
    /\ bcrypt_truncates = TRUE
    /\ registered = {[sess |-> 0, username |-> Txt123456, password |-> Txt123456, id |-> 1]}
    /\ run = NoRuns
    /\ last = Outcome(0, <<>>, "init", "none", <<>>, FALSE, {})

\* Application.process_update: a handler gets the update when its own filter (for a
\* dialogue step, the state it is registered under) accepts it and Dispatch selects it.
\* The expense button is not among the texts of this specification, so the expense
\* dialogue gets no update.
Update(s, t) ==
    \/ Filters[t].start /\ Dispatch(s, t).handler = "start" /\ start(s, t)
    \/ Filters[t].register /\ Dispatch(s, t).handler = "register_cmd" /\ register_cmd(s, t)
    \/ conv[s].reg = REG_USERNAME /\ Dispatch(s, t).handler = "reg_username" /\ reg_username(s, t)
    \/ conv[s].reg = REG_PASSWORD /\ Dispatch(s, t).handler = "reg_password" /\ reg_password(s, t)
    \/ Filters[t].login /\ Dispatch(s, t).handler = "login_cmd" /\ login_cmd(s, t)
    \/ conv[s].login = LOGIN_USERNAME /\ Dispatch(s, t).handler = "login_username" /\ login_username(s, t)
    \/ conv[s].login = LOGIN_PASSWORD /\ Dispatch(s, t).handler = "login_password" /\ login_password(s, t)
    \/ Filters[t].in /\ Dispatch(s, t).handler = "in_start" /\ in_start(s, t)
    \/ conv[s].in = IN_AMOUNT /\ Dispatch(s, t).handler = "in_amount" /\ in_amount(s, t)
    \/ conv[s].in = IN_NOTE /\ Dispatch(s, t).handler = "in_note" /\ in_note(s, t)
    \/ Filters[t].plain /\ Dispatch(s, t).handler = "menu_router" /\ menu_router(s, t)
    \/ Filters[t].logout /\ Dispatch(s, t).handler = "logout_cmd" /\ logout_cmd(s, t)
    \/ Filters[t].cancel /\ Dispatch(s, t).handler = "cancel" /\ cancel(s, t, Dispatch(s, t).conv)
    \/ Dispatch(s, t).handler = "none" /\ unhandled(s, t)

Commands == {CmdStart, CmdRegister, CmdLogin, CmdLogout, CmdCancel}

\* one chat sends the commands, the income button, a text that is a valid username,
\* password and amount, and a text that is none of them
Alphabet == Commands \cup {TxtIn, Txt123456, TxtSup2Sp}

Next == \E s \in {1}, t \in Alphabet : Update(s, t)

Spec == Init /\ [][Next]_vars

\* one chat registers, logs in and presses both entry buttons; with no /start, /logout
\* or /cancel sent, start, logout_cmd and cancel get no update
UpdateEntry(s, t) ==
    \/ Filters[t].register /\ Dispatch(s, t).handler = "register_cmd" /\ register_cmd(s, t)
    \/ conv[s].reg = REG_USERNAME /\ Dispatch(s, t).handler = "reg_username" /\ reg_username(s, t)
    \/ conv[s].reg = REG_PASSWORD /\ Dispatch(s, t).handler = "reg_password" /\ reg_password(s, t)
    \/ Filters[t].login /\ Dispatch(s, t).handler = "login_cmd" /\ login_cmd(s, t)
    \/ conv[s].login = LOGIN_USERNAME /\ Dispatch(s, t).handler = "login_username" /\ login_username(s, t)
    \/ conv[s].login = LOGIN_PASSWORD /\ Dispatch(s, t).handler = "login_password" /\ login_password(s, t)
    \/ Filters[t].in /\ Dispatch(s, t).handler = "in_start" /\ in_start(s, t)
    \/ conv[s].in = IN_AMOUNT /\ Dispatch(s, t).handler = "in_amount" /\ in_amount(s, t)
    \/ conv[s].in = IN_NOTE /\ Dispatch(s, t).handler = "in_note" /\ in_note(s, t)
    \/ Filters[t].out /\ Dispatch(s, t).handler = "out_start" /\ out_start(s, t)
    \/ conv[s].out = OUT_AMOUNT /\ Dispatch(s, t).handler = "out_amount" /\ out_amount(s, t)
    \/ conv[s].out = OUT_NOTE /\ Dispatch(s, t).handler = "out_note" /\ out_note(s, t)
    \/ Filters[t].plain /\ Dispatch(s, t).handler = "menu_router" /\ menu_router(s, t)
    \/ Dispatch(s, t).handler = "none" /\ unhandled(s, t)

EntryAlphabet == {CmdRegister, CmdLogin, TxtIn, TxtOut, Txt123456, TxtSup2Sp}

NextEntry == \E s \in {1}, t \in EntryAlphabet : UpdateEntry(s, t)

SpecEntry == Init /\ [][NextEntry]_vars

\* one chat of a restarted bot logs in and out and presses every button of the menu;
\* with no /start and no /register sent, start and the registration dialogue get no
\* update
UpdateMenu(s, t) ==
    \/ Filters[t].login /\ Dispatch(s, t).handler = "login_cmd" /\ login_cmd(s, t)
    \/ conv[s].login = LOGIN_USERNAME /\ Dispatch(s, t).handler = "login_username" /\ login_username(s, t)
    \/ conv[s].login = LOGIN_PASSWORD /\ Dispatch(s, t).handler = "login_password" /\ login_password(s, t)
    \/ Filters[t].in /\ Dispatch(s, t).handler = "in_start" /\ in_start(s, t)
    \/ conv[s].in = IN_AMOUNT /\ Dispatch(s, t).handler = "in_amount" /\ in_amount(s, t)
    \/ conv[s].in = IN_NOTE /\ Dispatch(s, t).handler = "in_note" /\ in_note(s, t)
    \/ Filters[t].out /\ Dispatch(s, t).handler = "out_start" /\ out_start(s, t)
    \/ conv[s].out = OUT_AMOUNT /\ Dispatch(s, t).handler = "out_amount" /\ out_amount(s, t)
    \/ conv[s].out = OUT_NOTE /\ Dispatch(s, t).handler = "out_note" /\ out_note(s, t)
    \/ Filters[t].plain /\ Dispatch(s, t).handler = "menu_router" /\ menu_router(s, t)
    \/ Filters[t].logout /\ Dispatch(s, t).handler = "logout_cmd" /\ logout_cmd(s, t)
    \/ Filters[t].cancel /\ Dispatch(s, t).handler = "cancel" /\ cancel(s, t, Dispatch(s, t).conv)
    \/ Dispatch(s, t).handler = "none" /\ unhandled(s, t)

MenuAlphabet ==
    {CmdLogin, CmdLogout, CmdCancel, TxtIn, TxtOut, TxtToday, TxtWeek, TxtMonth, Txt123456}

NextMenu == \E s \in {1}, t \in MenuAlphabet : UpdateMenu(s, t)

SpecMenu == InitRestarted /\ [][NextMenu]_vars

\* the account dialogues alone: texts that are no button and no /start, /logout or
\* /cancel reach the two account dialogues and the menu router only
UpdateAccount(s, t) ==
    \/ Filters[t].register /\ Dispatch(s, t).handler = "register_cmd" /\ register_cmd(s, t)
    \/ conv[s].reg = REG_USERNAME /\ Dispatch(s, t).handler = "reg_username" /\ reg_username(s, t)
    \/ conv[s].reg = REG_PASSWORD /\ Dispatch(s, t).handler = "reg_password" /\ reg_password(s, t)
    \/ Filters[t].login /\ Dispatch(s, t).handler = "login_cmd" /\ login_cmd(s, t)
    \/ conv[s].login = LOGIN_USERNAME /\ Dispatch(s, t).handler = "login_username" /\ login_username(s, t)
    \/ conv[s].login = LOGIN_PASSWORD /\ Dispatch(s, t).handler = "login_password" /\ login_password(s, t)
    \/ Filters[t].plain /\ Dispatch(s, t).handler = "menu_router" /\ menu_router(s, t)
    \/ Dispatch(s, t).handler = "none" /\ unhandled(s, t)

\* one chat registers and logs in, on either bcrypt, with a short password and two
\* long ones that agree on their first 72 bytes
AuthAlphabet == {CmdRegister, CmdLogin, Txt123456, TxtLongA, TxtLongB}

NextAuth == \E s \in {1}, t \in AuthAlphabet : UpdateAccount(s, t)

SpecAuth == InitAnyBcrypt /\ [][NextAuth]_vars

\* two chats register and log in, on either bcrypt, with a short and a long password
TwoAlphabet == {CmdRegister, CmdLogin, Txt123456, TxtLongA}

NextTwo == \E s \in Sessions, t \in TwoAlphabet : UpdateAccount(s, t)

SpecTwo == InitAnyBcrypt /\ [][NextTwo]_vars

\* the bot restarted on a database file that holds two users: 123456 and secret,
\* each with the own name as password
InitTwoUsers ==
    /\ conv = [s \in Sessions |-> [c \in ConvNames |-> END]]
    /\ user_data = [s \in Sessions |-> EmptyDict]
    /\ users = <<[id |-> 1, username |-> Txt123456,
                  password_hash |-> hashpw(encode(Txt123456), "salt1")],
                 [id |-> 2, username |-> TxtSecret,
                  password_hash |-> hashpw(encode(TxtSecret), "salt1")]>>
    /\ transactions = <<>>
    /\ now = StartTime
    /\ bcrypt_truncates = TRUE
    /\ registered = {[sess |-> 0, username |-> Txt123456, password |-> Txt123456, id |-> 1],
                     [sess |-> 0, username |-> TxtSecret, password |-> TxtSecret, id |-> 2]}
    /\ run = NoRuns
    /\ last = Outcome(0, <<>>, "init", "none", <<>>, FALSE, {})

\* the login dialogue, /logout and the income dialogue; the other handlers get no
\* update from the texts of OwnerAlphabet
UpdateOwner(s, t) ==
    \/ Filters[t].login /\ Dispatch(s, t).handler = "login_cmd" /\ login_cmd(s, t)
    \/ conv[s].login = LOGIN_USERNAME /\ Dispatch(s, t).handler = "login_username" /\ login_username(s, t)
    \/ conv[s].login = LOGIN_PASSWORD /\ Dispatch(s, t).handler = "login_password" /\ login_password(s, t)
    \/ Filters[t].in /\ Dispatch(s, t).handler = "in_start" /\ in_start(s, t)
    \/ conv[s].in = IN_AMOUNT /\ Dispatch(s, t).handler = "in_amount" /\ in_amount(s, t)
    \/ conv[s].in = IN_NOTE /\ Dispatch(s, t).handler = "in_note" /\ in_note(s, t)
    \/ Filters[t].plain /\ Dispatch(s, t).handler = "menu_router" /\ menu_router(s, t)
    \/ Filters[t].logout /\ Dispatch(s, t).handler = "logout_cmd" /\ logout_cmd(s, t)
    \/ Dispatch(s, t).handler = "none" /\ unhandled(s, t)

\* one chat of a bot with two users logs in as either, logs out and records income,
\* of an amount that fits an SQLite INTEGER or of one that does not
OwnerAlphabet == {CmdLogin, CmdLogout, TxtIn, Txt123456, TxtSecret, TxtOverInt}

NextOwner == \E s \in {1}, t \in OwnerAlphabet : UpdateOwner(s, t)

SpecOwner == InitTwoUsers /\ [][NextOwner]_vars

\* registration, login and the guarded handlers: the two entry dialogues and the
\* reports of the menu router
UpdateGuards(s, t) ==
    \/ Filters[t].register /\ Dispatch(s, t).handler = "register_cmd" /\ register_cmd(s, t)
    \/ conv[s].reg = REG_USERNAME /\ Dispatch(s, t).handler = "reg_username" /\ reg_username(s, t)
    \/ conv[s].reg = REG_PASSWORD /\ Dispatch(s, t).handler = "reg_password" /\ reg_password(s, t)
    \/ Filters[t].login /\ Dispatch(s, t).handler = "login_cmd" /\ login_cmd(s, t)
    \/ conv[s].login = LOGIN_USERNAME /\ Dispatch(s, t).handler = "login_username" /\ login_username(s, t)
    \/ conv[s].login = LOGIN_PASSWORD /\ Dispatch(s, t).handler = "login_password" /\ login_password(s, t)
    \/ Filters[t].in /\ Dispatch(s, t).handler = "in_start" /\ in_start(s, t)
    \/ conv[s].in = IN_AMOUNT /\ Dispatch(s, t).handler = "in_amount" /\ in_amount(s, t)
    \/ conv[s].in = IN_NOTE /\ Dispatch(s, t).handler = "in_note" /\ in_note(s, t)
    \/ Filters[t].out /\ Dispatch(s, t).handler = "out_start" /\ out_start(s, t)
    \/ conv[s].out = OUT_AMOUNT /\ Dispatch(s, t).handler = "out_amount" /\ out_amount(s, t)
    \/ conv[s].out = OUT_NOTE /\ Dispatch(s, t).handler = "out_note" /\ out_note(s, t)
    \/ Filters[t].plain /\ Dispatch(s, t).handler = "menu_router" /\ menu_router(s, t)
    \/ Dispatch(s, t).handler = "none" /\ unhandled(s, t)

\* one chat registers, logs in and presses both entry buttons and the button of the
\* monthly report
GuardsAlphabet == {CmdRegister, CmdLogin, TxtIn, TxtOut, TxtMonth, Txt123456}

NextGuards == \E s \in {1}, t \in GuardsAlphabet : UpdateGuards(s, t)

SpecGuards == Init /\ [][NextGuards]_vars

\* the clock moves on
Tick ==
    /\ now' = NextTick(now)
    /\ last' = Outcome(0, <<>>, "tick", "none", <<>>, FALSE, {})
    /\ UNCHANGED <<conv, user_data, users, transactions, bcrypt_truncates, registered, run>>

\* the instants of the specifications of the store and the clock: from the last
\* moment of Saturday 2023-12-30 to the first moments of Monday 2024-01-01
RECURSIVE After(_, _)
After(t, n) == IF n = 0 THEN t ELSE After(NextTick(t), n - 1)

FirstInstant == [y |-> 2023, m |-> 12, d |-> 30, tod |-> TicksPerDay - 1, us |-> 1]

Instants == {After(FirstInstant, n) : n \in 0..MaxTicks}

\* the bot restarted on a database file that holds the two users and no transaction
InitLedger ==
    /\ conv = [s \in Sessions |-> [c \in ConvNames |-> END]]
    /\ user_data = [s \in Sessions |-> EmptyDict]
    /\ users = <<[id |-> 1, username |-> Txt123456,
                  password_hash |-> hashpw(encode(Txt123456), "salt1")],
                 [id |-> 2, username |-> TxtSecret,
                  password_hash |-> hashpw(encode(TxtSecret), "salt1")]>>
    /\ transactions = <<>>
    /\ now = FirstInstant
    /\ bcrypt_truncates = TRUE
    /\ registered = {[sess |-> 0, username |-> Txt123456, password |-> Txt123456, id |-> 1],
                     [sess |-> 0, username |-> TxtSecret, password |-> TxtSecret, id |-> 2]}
    /\ run = NoRuns
    /\ last = Outcome(0, <<>>, "init", "none", <<>>, FALSE, {})

TxTypes == {"IN", "OUT"}

\* the amounts a note step can hand to add_tx
LedgerAmounts == {int(Txt7), int(TxtMaxInt), int(TxtOverInt)}

\* the range ends the reports can hand to sum_tx: the midnights of the instants
RangeEnds == {isoformat(Midnight(i)) : i \in Instants}

\* a call of add_tx
CallAddTx(user_id, tx_type, amount) ==
    /\ IF add_tx_raises(amount)
       THEN /\ last' = Outcome(0, <<>>, "add_tx", "none", <<amount>>, TRUE, {"add_tx"})
            /\ UNCHANGED transactions
       ELSE /\ Len(transactions) < MaxRows
            /\ transactions' = add_tx(user_id, tx_type, amount, NoNote)
            /\ last' = Outcome(0, <<>>, "add_tx", "none", <<amount>>, FALSE, {"add_tx"})
    /\ UNCHANGED <<conv, user_data, users, now, bcrypt_truncates, registered, run>>

\* a call of sum_tx
CallSumTx(user_id, tx_type, start_iso, end_iso) ==
    /\ IF sum_tx_raises(user_id, tx_type, start_iso, end_iso)
       THEN last' = Outcome(0, <<>>, "sum_tx", "none", <<>>, TRUE, {"sum_tx"})
       ELSE last' = Outcome(0, <<>>, "sum_tx", "none",
                            <<sum_tx(user_id, tx_type, start_iso, end_iso)>>,
                            FALSE, {"sum_tx"})
    /\ UNCHANGED <<conv, user_data, users, transactions, now, bcrypt_truncates, registered, run>>

NextLedger ==
    \/ now \in Instants \ {After(FirstInstant, MaxTicks)} /\ Tick
    \/ \E u \in {1, 2}, k \in TxTypes, a \in LedgerAmounts : CallAddTx(u, k, a)
    \/ \E u \in {1, 2}, k \in TxTypes, a \in RangeEnds, b \in RangeEnds : CallSumTx(u, k, a, b)

SpecLedger == InitLedger /\ [][NextLedger]_vars

\* the instants of the specification of the report ranges: every tick from the
\* last day of November 2023 on, over the turn of the year and the leap day of 2024
ClockStart == [y |-> 2023, m |-> 11, d |-> 30, tod |-> 0, us |-> 0]

ClockInstants ==
    {t \in [y : {2023, 2024}, m : 1..12, d : 1..31, tod : 0..(TicksPerDay - 1), us : {0, 1}] :
        /\ t.d <= DaysInMonth(t.y, t.m)
        /\ toordinal(t) - toordinal(ClockStart) \in 0..MaxDays}

InitClock ==
    /\ conv = [s \in Sessions |-> [c \in ConvNames |-> END]]
    /\ user_data = [s \in Sessions |-> EmptyDict]
    /\ users = <<>>
    /\ transactions = <<>>
    /\ now = ClockStart
    /\ bcrypt_truncates = TRUE
    /\ registered = {}
    /\ run = NoRuns
    /\ last = Outcome(0, <<>>, "init", "none", <<>>, FALSE, {})

\* a call of one of the three range functions at the present instant
CallRange(name, range) ==
    /\ last' = Outcome(0, <<>>, name, "none", range, FALSE, {})
    /\ UNCHANGED <<conv, user_data, users, transactions, now, bcrypt_truncates, registered, run>>

NextClock ==
    \/ NextTick(now) \in ClockInstants /\ Tick
    \/ CallRange("today_range", today_range(now))
    \/ CallRange("week_range_monday", week_range_monday(now))
    \/ CallRange("month_range", month_range(now))

SpecClock == InitClock /\ [][NextClock]_vars

(* ----------------------------- properties ------------------------------ *)
\* the dialogues of a chat that are in a state
Active(s) == {c \in ConvNames : conv[s][c] # END}

\* the scratch fields of user_data
ScratchKeys == {"reg_username", "login_username", "tmp_amount"}

\* the authentication a user_data holds: user_id and username, as far as present
AuthOf(d) == [k \in DOMAIN d \cap {"user_id", "username"} |-> d[k]]

\* is_logged_in, of a user_data
Authenticated(d) == "user_id" \in DOMAIN d

\* the first state of each dialogue
FirstState(c) ==
    CASE c = "reg" -> REG_USERNAME
      [] c = "login" -> LOGIN_USERNAME
      [] c = "in" -> IN_AMOUNT
      [] c = "out" -> OUT_AMOUNT

FreeTexts == {t \in AllTexts : Filters[t].plain}

\* C1: in every reachable state each chat has at most one of the four dialogues in
\* a state other than END.
C1_AtMostOneDialogue == \A s \in Sessions : Cardinality(Active(s)) <= 1

\* C2: when a chat has an active dialogue, a text that is not /cancel is handled by
\* the handler of that dialogue's current state and by nothing else. Stated for a
\* chat with exactly one active dialogue and for free text, which is the least the
\* claim asks.
C2_DialogueTakesText ==
    [][\A c \in ConvNames :
           (Active(last'.sess) = {c} /\ Filters[last'.text].plain)
               => last'.handler = StateHandler(conv[last'.sess][c])]_vars

\* C3: once an entry point has been accepted while another dialogue of the chat is
\* active, the next free text, whichever it is, goes to the first state of the
\* dialogue just entered and not to a state of the earlier one.
C3_NewDialogueTakesNext ==
    \A s \in Sessions, c \in ConvNames :
        (/\ last.sess = s
         /\ last.handler = EntryHandler(c)
         /\ conv[s][c] = FirstState(c)
         /\ Active(s) # {c})
            => \A t \in FreeTexts : Dispatch(s, t).handler = StateHandler(FirstState(c))

\* C4: after cancel has run in a chat, the chat has no active dialogue and none of
\* its scratch fields is set.
C4_CancelEndsDialogues ==
    \A s \in Sessions :
        (last.sess = s /\ last.handler = "cancel")
            => /\ Active(s) = {}
               /\ DOMAIN user_data[s] \cap ScratchKeys = {}

\* C5: a /cancel never changes the authentication of the chat and never changes
\* table users or table transactions.
C5_CancelKeepsAuthAndStores ==
    [][Filters[last'.text].cancel
           => /\ AuthOf(user_data'[last'.sess]) = AuthOf(user_data[last'.sess])
              /\ users' = users
              /\ transactions' = transactions]_vars

\* a cancel has run in a chat that is logged in, with a transaction on record
C5_Witness ==
    /\ last.handler = "cancel"
    /\ is_logged_in(last.sess)
    /\ transactions # <<>>

\* the registrations whose username and password are the ones given
Matching(username, password) ==
    {r \in registered : r.username = username /\ r.password = password}

\* C6: login_password authenticates the chat exactly when the pending username is
\* registered and the password sent is the one it registered with, as that user;
\* otherwise the authentication stays as it was; in both cases the login dialogue
\* ends.
C6_LoginExactlyRegistered ==
    [][last'.handler = "login_password"
           => LET s == last'.sess
                  m == Matching(Get(user_data[s], "login_username", <<>>), strip(last'.text))
              IN  /\ conv'[s].login = END
                  /\ IF m # {}
                     THEN /\ Authenticated(user_data'[s])
                          /\ \A r \in m : /\ user_data'[s]["user_id"] = r.id
                                          /\ user_data'[s]["username"] = r.username
                     ELSE AuthOf(user_data'[s]) = AuthOf(user_data[s])]_vars

\* C7: login_username always advances, and a login that fails on an anonymous chat
\* ends the same way whether the username is unknown or the password is wrong: the
\* failure notice, the login dialogue ended, the login scratch cleared, the chat
\* anonymous.
C7_FailedLoginUniform ==
    [][LET s == last'.sess
       IN  /\ last'.handler = "login_username" => conv'[s].login = LOGIN_PASSWORD
           /\ (/\ last'.handler = "login_password"
               /\ ~is_logged_in(s)
               /\ Matching(Get(user_data[s], "login_username", <<>>), strip(last'.text)) = {})
                  => /\ last'.notice = "login_failed"
                     /\ ~last'.raised
                     /\ conv'[s].login = END
                     /\ "login_username" \notin DOMAIN user_data'[s]
                     /\ ~Authenticated(user_data'[s])]_vars

\* C8: once a registration has completed with a username and a password, every
\* login_password of any chat given that username and password welcomes the chat
\* and authenticates it as the user the registration created, whatever happened
\* in between.
C8_RegisteredCanLogin ==
    [][\A r \in registered :
           (/\ last'.handler = "login_password"
            /\ Get(user_data[last'.sess], "login_username", <<>>) = r.username
            /\ strip(last'.text) = r.password)
               => /\ last'.notice = "welcome"
                  /\ conv'[last'.sess].login = END
                  /\ Authenticated(user_data'[last'.sess])
                  /\ user_data'[last'.sess]["user_id"] = r.id
                  /\ user_data'[last'.sess]["username"] = r.username
                  /\ find_user(r.username)[1].id = r.id]_vars

\* chat 1 registered, chat 2 has just logged in as the user that registration made
C8_Witness ==
    \E r \in registered :
        /\ r.sess = 1
        /\ last.sess = 2
        /\ last.handler = "login_password"
        /\ last.notice = "welcome"
        /\ user_data[2]["user_id"] = r.id

\* the income button, the expense button and the three report buttons
Triggers == {TxtIn, TxtOut, TxtToday, TxtWeek, TxtMonth}

\* the update got the please-log-in notice and nothing else happened
OnlyLoginNotice ==
    /\ last'.notice = "not_logged_in"
    /\ last'.db = {}
    /\ conv' = conv
    /\ user_data' = user_data
    /\ users' = users
    /\ transactions' = transactions

\* C9, as stated: an anonymous chat that sends one of the five triggers gets the
\* please-log-in notice and nothing else: no dialogue state, no scratch field, no
\* call of the store.
C9_AnonymousTrigger ==
    [][(last'.text \in Triggers /\ ~is_logged_in(last'.sess)) => OnlyLoginNotice]_vars

\* C9, amended: the same for an anonymous chat that has no active dialogue.
C9_AnonymousTriggerNoDialogue ==
    [][(/\ last'.text \in Triggers
        /\ ~is_logged_in(last'.sess)
        /\ Active(last'.sess) = {})
           => OnlyLoginNotice]_vars

\* a chat that logged out, with a transaction on record and no dialogue active, has
\* just asked for the week's report and got the please-log-in notice
C9_Witness ==
    /\ last.text = TxtWeek
    /\ last.notice = "not_logged_in"
    /\ ~is_logged_in(last.sess)
    /\ Active(last.sess) = {}
    /\ transactions # <<>>

\* the inputs the validating steps are to refuse
InvalidUsername(t) == Len(strip(t)) < 3 \/ find_user(strip(t)) # <<>>

InvalidPassword(t) == Len(strip(t)) < 6

InvalidAmount(t) ==
    \/ AmountText(t) = <<>>
    \/ \E i \in 1..Len(AmountText(t)) : AmountText(t)[i] \notin DecDigits

\* C10: an invalid input at a validating step leaves the dialogue state, the
\* scratch, the authentication and both tables as they were.
C10_InvalidInputChangesNothing ==
    [][(\/ last'.handler = "reg_username" /\ InvalidUsername(last'.text)
        \/ last'.handler = "reg_password" /\ InvalidPassword(last'.text)
        \/ last'.handler \in {"in_amount", "out_amount"} /\ InvalidAmount(last'.text))
           => /\ conv' = conv
              /\ user_data' = user_data
              /\ users' = users
              /\ transactions' = transactions]_vars

\* the expense amount step has just been given a superscript two, which isdigit()
\* accepts and int() refuses, and the dialogue is still at that step
C10_Witness ==
    /\ last.handler = "out_amount"
    /\ last.text = TxtSup2Sp
    /\ conv[last.sess].out = OUT_AMOUNT

\* C11: no two rows of table users have the same username, also when two chats
\* run the registration dialogue with one username and their steps interleave.
C11_UniqueUsernames ==
    \A i, j \in 1..Len(users) : users[i].username = users[j].username => i = j

\* both chats got the same username past reg_username; chat 1 registered it, and
\* the password step of chat 2 has just run into the UNIQUE constraint
C11_Witness ==
    /\ last.sess = 2
    /\ last.handler = "reg_password"
    /\ last.raised
    /\ last.db = {"create_user"}
    /\ "reg_username" \in DOMAIN user_data[2]
    /\ \E r \in registered : r.sess = 1 /\ r.username = user_data[2]["reg_username"]
    /\ Len(users) = 1

\* the ids of table users
UserIds == {users[i].id : i \in 1..Len(users)}

NoteHandlers == {"in_note", "out_note"}

\* C12: the user_id of every row of table transactions is the id of a row of table
\* users; a step that adds a transaction is taken by a chat that is logged in, and
\* the row carries the user_id the chat holds when the note step runs; a note step
\* of a chat that is not logged in adds no transaction.
C12_TransactionOwnerExists ==
    /\ [](\A i \in 1..Len(transactions) : transactions[i].user_id \in UserIds)
    /\ [][/\ transactions' # transactions
              => /\ Authenticated(user_data[last'.sess])
                 /\ Len(transactions') = Len(transactions) + 1
                 /\ transactions'[Len(transactions')].user_id
                        = user_data[last'.sess]["user_id"]
          /\ (last'.handler \in NoteHandlers /\ ~Authenticated(user_data[last'.sess]))
              => transactions' = transactions]_vars

\* the chat logged out in the middle of the income dialogue and its note step has
\* just run: no transaction
C12_Witness ==
    /\ last.handler = "in_note"
    /\ last.raised
    /\ ~is_logged_in(last.sess)
    /\ conv[last.sess].in = IN_NOTE
    /\ transactions = <<>>

\* the sum of the amounts of the rows of table transactions numbered in a set
RECURSIVE SumOf(_)
SumOf(rows) ==
    IF rows = {} THEN Zero
    ELSE LET i == CHOOSE x \in rows : TRUE
         IN  IntAdd(transactions[i].amount, SumOf(rows \ {i}))

\* the rows of an owner and a kind whose time t satisfies start <= t < end
InRange(user_id, tx_type, from, to) ==
    {i \in 1..Len(transactions) :
        /\ transactions[i].user_id = user_id
        /\ transactions[i].type = tx_type
        /\ ~Earlier(fromisoformat(transactions[i].ts), from)
        /\ Earlier(fromisoformat(transactions[i].ts), to)}

\* C13: for every owner, kind and range, sum_tx returns the sum of the amounts of
\* the transactions of that owner and kind whose time t satisfies start <= t < end,
\* each counted once, and 0 when there is none.
C13_SumInRange ==
    \A u \in UserIds, k \in TxTypes, a \in RangeEnds, b \in RangeEnds :
        /\ ~sum_tx_raises(u, k, a, b)
        /\ sum_tx(u, k, a, b) = SumOf(InRange(u, k, fromisoformat(a), fromisoformat(b)))

\* what sum_tx does keep of C13: whenever it returns, it returns that sum
C13_SumWhenReturned ==
    \A u \in UserIds, k \in TxTypes, a \in RangeEnds, b \in RangeEnds :
        ~sum_tx_raises(u, k, a, b)
            => sum_tx(u, k, a, b) = SumOf(InRange(u, k, fromisoformat(a), fromisoformat(b)))

\* C14: no step changes or removes a row of table users or of table transactions;
\* a step adds a row to users only when it is a registration password step that
\* confirms the registration, and a row to transactions only when it is a note step
\* that confirms the entry, and each such step adds exactly one row.
C14_AppendOnly ==
    [][/\ Len(users') >= Len(users)
       /\ SubSeq(users', 1, Len(users)) = users
       /\ Len(transactions') >= Len(transactions)
       /\ SubSeq(transactions', 1, Len(transactions)) = transactions
       /\ Len(users') - Len(users)
              = IF last'.handler = "reg_password" /\ last'.notice = "registered"
                THEN 1 ELSE 0
       /\ Len(transactions') - Len(transactions)
              = IF /\ last'.handler \in NoteHandlers
                   /\ last'.notice \in {"in_recorded", "out_recorded"}
                THEN 1 ELSE 0]_vars

\* the chat registered, logged in and went through the income dialogue: one row in
\* each table, the transaction just added by the note step
C14_Witness ==
    /\ last.handler = "in_note"
    /\ last.notice = "in_recorded"
    /\ Len(users) = 1
    /\ Len(transactions) = 1
    /\ transactions[1].user_id = users[1].id

\* the date of a datetime
Date(t) == <<t.y, t.m, t.d>>

\* u lies in the day, the Monday-started week, the calendar month after that of t
InNextDay(u, t) == Date(u) = Date(NextDay(t))

InNextWeek(u, t) ==
    toordinal(u) - weekday(u) = toordinal(t) - weekday(t) + 7

InNextMonth(u, t) ==
    <<u.y, u.m>> = IF t.m = 12 THEN <<t.y + 1, 1>> ELSE <<t.y, t.m + 1>>

\* range r, a pair of isoformat texts, holds instant t: start <= t < end, as
\* datetimes and as the texts sum_tx compares
Holds(r, t) ==
    /\ ~Earlier(t, fromisoformat(r[1]))
    /\ Earlier(t, fromisoformat(r[2]))
    /\ ~TextLess(isoformat(t), r[1])
    /\ TextLess(isoformat(t), r[2])

\* C15: at every instant now the day, week and month ranges are [start, end) with
\* start <= now < end, and the end of each equals the start of the range computed
\* at any instant of the next day, week or month: the periods neither overlap nor
\* leave a gap, from December to January as well.
C15_RangesPartition ==
    /\ Holds(today_range(now), now)
    /\ Holds(week_range_monday(now), now)
    /\ Holds(month_range(now), now)
    /\ \A u \in ClockInstants :
        /\ InNextDay(u, now) => today_range(u)[1] = today_range(now)[2]
        /\ InNextWeek(u, now) => week_range_monday(u)[1] = week_range_monday(now)[2]
        /\ InNextMonth(u, now) => month_range(u)[1] = month_range(now)[2]

\* the last moment of 2023, a Sunday: the day, the week and the month all end at
\* the first instant of 2024, and month_range has just been called
C15_Witness ==
    /\ now = StartTime
    /\ last.handler = "month_range"
    /\ last.shown = <<isoformat([y |-> 2023, m |-> 12, d |-> 1, tod |-> 0, us |-> 0]),
                      isoformat([y |-> 2024, m |-> 1, d |-> 1, tod |-> 0, us |-> 0])>>
    /\ today_range(now)[2] = last.shown[2]
    /\ week_range_monday(now)[2] = last.shown[2]

ReportTexts == {TxtToday, TxtWeek, TxtMonth}

ReportNotices == {"report_in_today", "report_out_week", "report_month"}

\* C16: a registration password step that registers leaves the authentication of
\* the chat as it was; a chat becomes logged in only by a login password step that
\* welcomes it; and for a chat that is not logged in the entry points of both entry
\* dialogues and the three reports answer with the please-log-in notice and nothing
\* else: no dialogue is entered and no report is shown.
C16_NoAutoLogin ==
    [][LET s == last'.sess
       IN  /\ (last'.handler = "reg_password" /\ last'.notice = "registered")
                => AuthOf(user_data'[s]) = AuthOf(user_data[s])
           /\ \A c \in Sessions :
                (~Authenticated(user_data[c]) /\ Authenticated(user_data'[c]))
                    => /\ s = c
                       /\ last'.handler = "login_password"
                       /\ last'.notice = "welcome"
           /\ (s \in Sessions /\ ~Authenticated(user_data[s]))
                => /\ last'.handler \in {"in_start", "out_start"}
                        => /\ last'.notice = "not_logged_in"
                           /\ conv'[s].in = END
                           /\ conv'[s].out = END
                   /\ last'.notice \notin ReportNotices
                   /\ (last'.handler = "menu_router" /\ strip(last'.text) \in ReportTexts)
                        => last'.notice = "not_logged_in" /\ last'.db = {}]_vars

\* the chat has registered and not logged in, and the monthly report has just
\* refused it
C16_Witness ==
    /\ \E r \in registered : r.sess = last.sess
    /\ ~is_logged_in(last.sess)
    /\ last.handler = "menu_router"
    /\ last.text = TxtMonth
    /\ last.notice = "not_logged_in"

\* C17: every row a step adds to table transactions is added by a note step, has
\* the type of the dialogue of that step, and has the amount the amount step of the
\* same run of that dialogue accepted, whatever the chat did in between.
C17_RecordsAcceptedAmount ==
    [][transactions' # transactions
        => LET s == last'.sess
               c == IF last'.handler = "in_note" THEN "in" ELSE "out"
               row == transactions'[Len(transactions')]
           IN  /\ last'.handler \in NoteHandlers
               /\ row.type = (IF c = "in" THEN "IN" ELSE "OUT")
               /\ row.amount = run[s][c].amount]_vars

\* C18: a registration password step whose pending username is taken by then,
\* because another chat registered it after the username step had accepted it, does
\* not raise: it answers with the username-taken notice and the dialogue goes on.
C18_TakenUsernameReprompts ==
    [][LET s == last'.sess
       IN  (/\ last'.handler = "reg_password"
            /\ "reg_username" \in DOMAIN user_data[s]
            /\ find_user(user_data[s]["reg_username"]) # <<>>
            /\ Len(strip(last'.text)) >= 6)
               => /\ ~last'.raised
                  /\ last'.notice = "username_taken"
                  /\ conv'[s].reg # END]_vars

\* the scratch fields a user_data holds
ScratchOf(d) == [k \in DOMAIN d \cap ScratchKeys |-> d[k]]

\* C19: a step whose store call fails, create_user in the registration password
\* step or add_tx in a note step, leaves both tables as they were and the dialogues
\* of the chat as they were: the same states and the same scratch fields.
C19_StoreFailureChangesNothing ==
    [][LET s == last'.sess
       IN  (last'.raised /\ last'.db \cap {"create_user", "add_tx"} # {})
               => /\ users' = users
                  /\ transactions' = transactions
                  /\ conv'[s] = conv[s]
                  /\ ScratchOf(user_data'[s]) = ScratchOf(user_data[s])]_vars

\* C20: every row a note step adds to table transactions has the user_id the chat
\* was logged in with when that run of the dialogue was entered.
C20_OwnerIsUserAtEntry ==
    [][(transactions' # transactions /\ last'.handler \in NoteHandlers)
        => LET s == last'.sess
               c == IF last'.handler = "in_note" THEN "in" ELSE "out"
           IN  transactions'[Len(transactions')].user_id = run[s][c].owner]_vars

====
